---- MODULE Spec2Model ----
(***************************************************************************)
(* Workout-generation backend (src/src/backend/main.mo): recovery model,   *)
(* selection policy, deterministic shuffle, workout assembly and the       *)
(* load/volume calculator, as a state machine over the actor's stable      *)
(* variables.                                                              *)
(*                                                                         *)
(* Numbers.  Time is counted in ticks of 2.4 hours (72 h = 30 ticks,       *)
(* 48 h = 20 ticks).  A Float percentage p is held as the integer 30 * p   *)
(* (so 100.0 is 3000 and the weighted leg average is exact).  A Float      *)
(* weight w is held as the integer 4000 * w.  Arithmetic is exact;         *)
(* IEEE rounding is not modelled.                                          *)
(***************************************************************************)
EXTENDS Integers, Sequences, FiniteSets, TLC

VARIABLES
    TEST_RECOVERY_MODE,  \* main.mo:16, a build-time flag: fixed by Init, never changed
    now,                 \* Time.now(), in ticks
    shuffleCounter,      \* main.mo:240
    userProfiles,        \* main.mo:243
    workoutHistory,      \* main.mo:244
    recoveryState,       \* main.mo:245
    setConfigurations,   \* main.mo:248
    ret                  \* the last call: operation, caller, reply

vars == <<TEST_RECOVERY_MODE, now, shuffleCounter, userProfiles, workoutHistory,
          recoveryState, setConfigurations, ret>>

null == [isNull |-> TRUE]

(***************************************************************************)
(* Bounds of the model.                                                    *)
(***************************************************************************)
\* the clock stops at MaxTime
MaxTime == 24
\* generation is not called once it would push shuffleCounter past MaxShuffle
MaxShuffle == 9
\* saveWorkout is not called once a caller's history holds MaxHistory workouts
MaxHistory == 2
\* the longest list of the lists the shuffle is tried on, whatever the state
MaxLen == 3
\* the counter values a later shuffle invocation is taken to read: 0..ShuffleHorizon
ShuffleHorizon == 24

(***************************************************************************)
(* Static data.                                                            *)
(***************************************************************************)
exerciseLibrary == <<
    [name |-> "Barbell Squats", primaryMuscleGroup |-> "Quads", equipmentType |-> "Barbell", recoveryTime |-> 72],
    [name |-> "Romanian Deadlifts", primaryMuscleGroup |-> "Hamstrings", equipmentType |-> "Barbell", recoveryTime |-> 72],
    [name |-> "Bulgarian Split Squats", primaryMuscleGroup |-> "Quads", equipmentType |-> "Dumbbell", recoveryTime |-> 72],
    [name |-> "Leg Curls", primaryMuscleGroup |-> "Hamstrings", equipmentType |-> "Machine", recoveryTime |-> 72],
    [name |-> "Leg Extensions", primaryMuscleGroup |-> "Quads", equipmentType |-> "Machine", recoveryTime |-> 72],
    [name |-> "Hip Thrusts", primaryMuscleGroup |-> "Glutes", equipmentType |-> "Barbell", recoveryTime |-> 72],
    [name |-> "Glute Bridges", primaryMuscleGroup |-> "Glutes", equipmentType |-> "Bodyweight", recoveryTime |-> 72],
    [name |-> "Standing Calf Raises", primaryMuscleGroup |-> "Calves", equipmentType |-> "Machine", recoveryTime |-> 72],
    [name |-> "Seated Calf Raises", primaryMuscleGroup |-> "Calves", equipmentType |-> "Machine", recoveryTime |-> 72],
    [name |-> "Goblet Squats", primaryMuscleGroup |-> "Quads", equipmentType |-> "Dumbbell", recoveryTime |-> 72],
    [name |-> "Walking Lunges", primaryMuscleGroup |-> "Quads", equipmentType |-> "Dumbbell", recoveryTime |-> 72],
    [name |-> "Stiff-Leg Deadlifts", primaryMuscleGroup |-> "Hamstrings", equipmentType |-> "Barbell", recoveryTime |-> 72],
    [name |-> "Good Mornings", primaryMuscleGroup |-> "Hamstrings", equipmentType |-> "Barbell", recoveryTime |-> 72],
    [name |-> "Cable Kickbacks", primaryMuscleGroup |-> "Glutes", equipmentType |-> "Cable", recoveryTime |-> 72],
    [name |-> "Sumo Deadlifts", primaryMuscleGroup |-> "Glutes", equipmentType |-> "Barbell", recoveryTime |-> 72],
    [name |-> "Donkey Calf Raises", primaryMuscleGroup |-> "Calves", equipmentType |-> "Machine", recoveryTime |-> 72],
    [name |-> "Single-Leg Calf Raises", primaryMuscleGroup |-> "Calves", equipmentType |-> "Bodyweight", recoveryTime |-> 72],
    [name |-> "Planks", primaryMuscleGroup |-> "Core", equipmentType |-> "Bodyweight", recoveryTime |-> 48],
    [name |-> "Crunches", primaryMuscleGroup |-> "Core", equipmentType |-> "Bodyweight", recoveryTime |-> 48],
    [name |-> "Russian Twists", primaryMuscleGroup |-> "Core", equipmentType |-> "Bodyweight", recoveryTime |-> 48],
    [name |-> "Leg Raises", primaryMuscleGroup |-> "Core", equipmentType |-> "Bodyweight", recoveryTime |-> 48],
    [name |-> "Cable Crunches", primaryMuscleGroup |-> "Core", equipmentType |-> "Cable", recoveryTime |-> 48],
    [name |-> "Ab Wheel Rollouts", primaryMuscleGroup |-> "Core", equipmentType |-> "Bodyweight", recoveryTime |-> 48],
    [name |-> "Mountain Climbers", primaryMuscleGroup |-> "Core", equipmentType |-> "Bodyweight", recoveryTime |-> 48],
    [name |-> "Bench Press", primaryMuscleGroup |-> "Chest", equipmentType |-> "Barbell", recoveryTime |-> 72],
    [name |-> "Incline Bench Press", primaryMuscleGroup |-> "Chest", equipmentType |-> "Barbell", recoveryTime |-> 72],
    [name |-> "Chest Flys", primaryMuscleGroup |-> "Chest", equipmentType |-> "Dumbbell", recoveryTime |-> 72],
    [name |-> "Push-Ups", primaryMuscleGroup |-> "Chest", equipmentType |-> "Bodyweight", recoveryTime |-> 72],
    [name |-> "Pull-Ups", primaryMuscleGroup |-> "Back", equipmentType |-> "Bodyweight", recoveryTime |-> 72],
    [name |-> "Barbell Rows", primaryMuscleGroup |-> "Back", equipmentType |-> "Barbell", recoveryTime |-> 72],
    [name |-> "Lat Pulldowns", primaryMuscleGroup |-> "Back", equipmentType |-> "Machine", recoveryTime |-> 72],
    [name |-> "Seated Rows", primaryMuscleGroup |-> "Back", equipmentType |-> "Machine", recoveryTime |-> 72],
    [name |-> "Shoulder Press", primaryMuscleGroup |-> "Shoulders", equipmentType |-> "Barbell", recoveryTime |-> 72],
    [name |-> "Lateral Raises", primaryMuscleGroup |-> "Shoulders", equipmentType |-> "Dumbbell", recoveryTime |-> 72],
    [name |-> "Front Raises", primaryMuscleGroup |-> "Shoulders", equipmentType |-> "Dumbbell", recoveryTime |-> 72],
    [name |-> "Arnold Press", primaryMuscleGroup |-> "Shoulders", equipmentType |-> "Dumbbell", recoveryTime |-> 72],
    [name |-> "Bicep Curls", primaryMuscleGroup |-> "Arms", equipmentType |-> "Dumbbell", recoveryTime |-> 72],
    [name |-> "Tricep Extensions", primaryMuscleGroup |-> "Arms", equipmentType |-> "Dumbbell", recoveryTime |-> 72],
    [name |-> "Hammer Curls", primaryMuscleGroup |-> "Arms", equipmentType |-> "Dumbbell", recoveryTime |-> 72],
    [name |-> "Tricep Pushdowns", primaryMuscleGroup |-> "Arms", equipmentType |-> "Cable", recoveryTime |-> 72],
    [name |-> "Barbell Curls", primaryMuscleGroup |-> "Arms", equipmentType |-> "Barbell", recoveryTime |-> 72],
    [name |-> "Reverse Flys", primaryMuscleGroup |-> "Shoulders", equipmentType |-> "Dumbbell", recoveryTime |-> 72],
    [name |-> "Face Pulls", primaryMuscleGroup |-> "Shoulders", equipmentType |-> "Cable", recoveryTime |-> 72],
    [name |-> "Incline Curls", primaryMuscleGroup |-> "Arms", equipmentType |-> "Dumbbell", recoveryTime |-> 72],
    [name |-> "Overhead Tricep Extension", primaryMuscleGroup |-> "Arms", equipmentType |-> "Dumbbell", recoveryTime |-> 72],
    [name |-> "Dumbbell Bench Press", primaryMuscleGroup |-> "Chest", equipmentType |-> "Dumbbell", recoveryTime |-> 72],
    [name |-> "Decline Bench Press", primaryMuscleGroup |-> "Chest", equipmentType |-> "Barbell", recoveryTime |-> 72],
    [name |-> "Incline Dumbbell Press", primaryMuscleGroup |-> "Chest", equipmentType |-> "Dumbbell", recoveryTime |-> 72],
    [name |-> "Cable Crossovers", primaryMuscleGroup |-> "Chest", equipmentType |-> "Cable", recoveryTime |-> 72],
    [name |-> "Chest Dips", primaryMuscleGroup |-> "Chest", equipmentType |-> "Bodyweight", recoveryTime |-> 72],
    [name |-> "Machine Chest Press", primaryMuscleGroup |-> "Chest", equipmentType |-> "Machine", recoveryTime |-> 72],
    [name |-> "Svend Press", primaryMuscleGroup |-> "Chest", equipmentType |-> "Plate", recoveryTime |-> 72],
    [name |-> "Wide Grip Push-Ups", primaryMuscleGroup |-> "Chest", equipmentType |-> "Bodyweight", recoveryTime |-> 72],
    [name |-> "Deadlift", primaryMuscleGroup |-> "Back", equipmentType |-> "Barbell", recoveryTime |-> 72],
    [name |-> "Bent Over Row", primaryMuscleGroup |-> "Back", equipmentType |-> "Barbell", recoveryTime |-> 72],
    [name |-> "T-Bar Row", primaryMuscleGroup |-> "Back", equipmentType |-> "Barbell", recoveryTime |-> 72],
    [name |-> "Single Arm Dumbbell Row", primaryMuscleGroup |-> "Back", equipmentType |-> "Dumbbell", recoveryTime |-> 72],
    [name |-> "Straight Arm Pulldown", primaryMuscleGroup |-> "Back", equipmentType |-> "Cable", recoveryTime |-> 72]
>>

\* groups in the order of debugGetExerciseCounts
MuscleGroups ==
    <<"Quads", "Hamstrings", "Glutes", "Calves", "Core", "Chest", "Back", "Shoulders", "Arms">>

coreMuscleGroup == "Core"

\* ASCII lower-casing, tabulated for the texts that reach it
toLower(t) ==
    CASE t = "Quads" -> "quads"
      [] t = "Hamstrings" -> "hamstrings"
      [] t = "Glutes" -> "glutes"
      [] t = "Calves" -> "calves"
      [] t = "Core" -> "core"
      [] t = "Chest" -> "chest"
      [] t = "Back" -> "back"
      [] t = "Shoulders" -> "shoulders"
      [] t = "Arms" -> "arms"
      [] t = "CORE" -> "core"
      [] t = "legs" -> "legs"
      [] OTHER -> t

toF(x) == x

Min(a, b) == IF a <= b THEN a ELSE b
Max(a, b) == IF a >= b THEN a ELSE b

\* a Float percentage literal p, in the model's unit
Pct(p) == 30 * p

(***************************************************************************)
(* Callers.  A Principal is its blob, a sequence of bytes.  The access     *)
(* control module is not part of the sources: it is modelled as a fixed    *)
(* role table.                                                             *)
(***************************************************************************)
alice == <<10, 1>>
bob == <<10, 2>>
anonymous == <<4>>
Principals == {alice, anonymous}
\* the keys of the actor's maps
AllPrincipals == {alice, bob, anonymous}

hasPermission(caller, role) ==
    CASE role = "user" -> caller \in {alice, bob}
      [] role = "admin" -> FALSE
      [] OTHER -> TRUE

(***************************************************************************)
(* Recovery model.                                                         *)
(***************************************************************************)
RecoveryFields ==
    {"chest", "back", "shoulders", "arms", "core",
     "quadsRecovery", "hamstringsRecovery", "glutesRecovery", "calvesRecovery"}

calculateRecoveryPercentageNoClamp(lastTrained, recoveryTimeHours) ==
    ((now - lastTrained) * 24 * Pct(100)) \div (recoveryTimeHours * 10)

calculateRecoveryPercentage(lastTrained, recoveryTimeHours) ==
    LET elapsedNanos == now - lastTrained
        \* elapsedHours / recoveryTimeHours * 100, a tick being 24/10 hours
        percentage == Min(Pct(100), (toF(elapsedNanos) * 24 * Pct(100)) \div (toF(recoveryTimeHours) * 10))
    IN percentage

\* lines 526-539 with every group answered from the chest field
getLastTrainedOfChest(group, recovery) == recovery.chest.lastTrained

getLastTrained(group, recovery) ==
    CASE group = "Chest" -> recovery.chest.lastTrained
      [] group = "Back" -> recovery.back.lastTrained
      [] group = "Shoulders" -> recovery.shoulders.lastTrained
      [] group = "Arms" -> recovery.arms.lastTrained
      [] group = "Core" -> recovery.core.lastTrained
      [] group = "Quads" -> recovery.quadsRecovery.lastTrained
      [] group = "Hamstrings" -> recovery.hamstringsRecovery.lastTrained
      [] group = "Glutes" -> recovery.glutesRecovery.lastTrained
      [] group = "Calves" -> recovery.calvesRecovery.lastTrained
      [] OTHER -> now

\* lines 264-280 with the four subgroups weighted equally
calculateLegsFromSubgroupsUnweighted(quads, hamstrings, glutes, calves) ==
    LET latest == Max(quads.lastTrained,
                      Max(hamstrings.lastTrained, Max(glutes.lastTrained, calves.lastTrained)))
        meanRecovery == (quads.recoveryPercentage + hamstrings.recoveryPercentage +
                         glutes.recoveryPercentage + calves.recoveryPercentage) \div 4
    IN [lastTrained |-> latest, recoveryPercentage |-> Min(Pct(100), Max(Pct(0), meanRecovery))]

calculateLegsFromSubgroups(quads, hamstrings, glutes, calves) ==
    LET latest == Max(quads.lastTrained,
                      Max(hamstrings.lastTrained, Max(glutes.lastTrained, calves.lastTrained)))
        \* the weights 0.38, 0.22, 0.30, 0.10 in hundredths
        weightedRecovery == (quads.recoveryPercentage * 38 +
                             hamstrings.recoveryPercentage * 22 +
                             glutes.recoveryPercentage * 30 +
                             calves.recoveryPercentage * 10) \div 100
        clampedRecovery == Min(Pct(100), Max(Pct(0), weightedRecovery))
    IN [lastTrained |-> latest, recoveryPercentage |-> clampedRecovery]

\* lines 282-318 with `case ("Core") { 1 }` and 1 for the groups under the override
getExerciseCountForGroupOneNotTwo(group, recovery) ==
    IF TEST_RECOVERY_MODE
    THEN (IF group = "Core" THEN 2 ELSE 1)
    ELSE IF group \in {"Quads", "Hamstrings", "Glutes", "Calves"}
    THEN LET recoveryPct ==
                 CASE group = "Quads" -> recovery.quadsRecovery.recoveryPercentage
                   [] group = "Hamstrings" -> recovery.hamstringsRecovery.recoveryPercentage
                   [] group = "Glutes" -> recovery.glutesRecovery.recoveryPercentage
                   [] group = "Calves" -> recovery.calvesRecovery.recoveryPercentage
         IN IF recoveryPct >= Pct(80) THEN 2
            ELSE IF recoveryPct >= Pct(50) THEN 1 ELSE 0
    ELSE IF group = "Core" THEN 1
    ELSE IF group \in {"Chest", "Back", "Shoulders", "Arms"}
    THEN (IF calculateRecoveryPercentage(getLastTrained(group, recovery), 72) >= Pct(65)
          THEN 2 ELSE 0)
    ELSE 0

\* lines 282-318 with `recoveryPct >= 30.0` for `recoveryPct >= 50.0` in the leg subgroups
getExerciseCountForGroupLegsThirty(group, recovery) ==
    IF TEST_RECOVERY_MODE THEN 2
    ELSE IF group \in {"Quads", "Hamstrings", "Glutes", "Calves"}
    THEN LET recoveryPct ==
                 CASE group = "Quads" -> recovery.quadsRecovery.recoveryPercentage
                   [] group = "Hamstrings" -> recovery.hamstringsRecovery.recoveryPercentage
                   [] group = "Glutes" -> recovery.glutesRecovery.recoveryPercentage
                   [] group = "Calves" -> recovery.calvesRecovery.recoveryPercentage
         IN IF recoveryPct >= Pct(80) THEN 2
            ELSE IF recoveryPct >= Pct(30) THEN 1 ELSE 0
    ELSE IF group = "Core" THEN 2
    ELSE IF group \in {"Chest", "Back", "Shoulders", "Arms"}
    THEN (IF calculateRecoveryPercentage(getLastTrained(group, recovery), 72) >= Pct(65)
          THEN 2 ELSE 0)
    ELSE 0

\* lines 282-318 with Core gated on its own percentage, as the leg subgroups are
getExerciseCountForGroupCoreGated(group, recovery) ==
    IF TEST_RECOVERY_MODE THEN 2
    ELSE LET recoveryPct ==
                 CASE group = "Quads" -> recovery.quadsRecovery.recoveryPercentage
                   [] group = "Hamstrings" -> recovery.hamstringsRecovery.recoveryPercentage
                   [] group = "Glutes" -> recovery.glutesRecovery.recoveryPercentage
                   [] group = "Calves" -> recovery.calvesRecovery.recoveryPercentage
                   [] group = "Core" -> recovery.core.recoveryPercentage
                   [] OTHER -> Pct(100)
         IN IF recoveryPct >= Pct(80) THEN 2
            ELSE IF recoveryPct >= Pct(50) THEN 1 ELSE 0

\* lines 282-318 with the 65% gate of the upper groups put on every group, Core included
getExerciseCountForGroupAllGated(group, recovery) ==
    IF TEST_RECOVERY_MODE THEN 2
    ELSE IF calculateRecoveryPercentage(getLastTrained(group, recovery), 72) >= Pct(65)
         THEN 2 ELSE 0

getExerciseCountForGroup(group, recovery) ==
    IF TEST_RECOVERY_MODE
    THEN (IF group = "Core" THEN 2 ELSE 2)
    ELSE CASE group = "Quads" ->
                LET recoveryPct == recovery.quadsRecovery.recoveryPercentage
                IN IF recoveryPct >= Pct(80) THEN 2
                   ELSE IF recoveryPct >= Pct(50) THEN 1 ELSE 0
           [] group = "Hamstrings" ->
                LET recoveryPct == recovery.hamstringsRecovery.recoveryPercentage
                IN IF recoveryPct >= Pct(80) THEN 2
                   ELSE IF recoveryPct >= Pct(50) THEN 1 ELSE 0
           [] group = "Glutes" ->
                LET recoveryPct == recovery.glutesRecovery.recoveryPercentage
                IN IF recoveryPct >= Pct(80) THEN 2
                   ELSE IF recoveryPct >= Pct(50) THEN 1 ELSE 0
           [] group = "Calves" ->
                LET recoveryPct == recovery.calvesRecovery.recoveryPercentage
                IN IF recoveryPct >= Pct(80) THEN 2
                   ELSE IF recoveryPct >= Pct(50) THEN 1 ELSE 0
           [] group \in {"Chest", "Back", "Shoulders", "Arms"} ->
                IF calculateRecoveryPercentage(getLastTrained(group, recovery), 72) >= Pct(65)
                THEN 2 ELSE 0
           [] group = "Core" -> 2
           [] OTHER -> 0

\* `workout.exercises.any(e => muscleGroups.any(group => group == e.exercise.primaryMuscleGroup))`
\* lines 498-516 with the end of the recovery window stored as lastTrained
updateMuscleRecoveryStoresWindowEnd(existingRecovery, workout, muscleGroups, recoveryTime) ==
    LET targetsGroup ==
            \E i \in 1..Len(workout.exercises) :
                \E k \in 1..Len(muscleGroups) :
                    muscleGroups[k] = workout.exercises[i].exercise.primaryMuscleGroup
    IN IF targetsGroup
       THEN [lastTrained |-> now + (recoveryTime * 10) \div 24, recoveryPercentage |-> Pct(0)]
       ELSE [lastTrained |-> existingRecovery.lastTrained,
             recoveryPercentage |->
                 calculateRecoveryPercentage(existingRecovery.lastTrained, recoveryTime)]

updateMuscleRecovery(existingRecovery, workout, muscleGroups, recoveryTime) ==
    LET targetsGroup ==
            \E i \in 1..Len(workout.exercises) :
                \E k \in 1..Len(muscleGroups) :
                    muscleGroups[k] = workout.exercises[i].exercise.primaryMuscleGroup
    IN IF targetsGroup
       THEN [lastTrained |-> now, recoveryPercentage |-> Pct(0)]
       ELSE [lastTrained |-> existingRecovery.lastTrained,
             recoveryPercentage |->
                 calculateRecoveryPercentage(existingRecovery.lastTrained, recoveryTime)]

\* lines 541-580 with Core refreshed over 72 hours like the other groups
refreshAllRecoveryPercentagesCore72(existing) ==
    IF TEST_RECOVERY_MODE
    THEN LET fullRecovery == [lastTrained |-> existing.chest.lastTrained,
                              recoveryPercentage |-> Pct(100)]
         IN [f \in RecoveryFields |-> fullRecovery]
    ELSE [f \in RecoveryFields |->
            [lastTrained |-> existing[f].lastTrained,
             recoveryPercentage |-> calculateRecoveryPercentage(existing[f].lastTrained, 72)]]

refreshAllRecoveryPercentages(existing) ==
    IF TEST_RECOVERY_MODE
    THEN LET fullRecovery == [lastTrained |-> existing.chest.lastTrained,
                              recoveryPercentage |-> Pct(100)]
         IN [f \in RecoveryFields |-> fullRecovery]
    ELSE [f \in RecoveryFields |->
            [lastTrained |-> existing[f].lastTrained,
             recoveryPercentage |->
                 calculateRecoveryPercentage(existing[f].lastTrained,
                                             IF f = "core" THEN 48 ELSE 72)]]

getDefaultRecoveryState ==
    LET defaultRecovery == [lastTrained |-> now - 30,   \* 72 hours
                            recoveryPercentage |-> Pct(100)]
    IN [f \in RecoveryFields |-> defaultRecovery]

(***************************************************************************)
(* Load / volume calculator.                                               *)
(***************************************************************************)
calculateSetsAndReps(profile) ==
    LET sets == CASE profile.trainingFrequency = "threeDays" -> 4
                  [] profile.trainingFrequency = "fourDays" -> 3
                  [] profile.trainingFrequency = "fiveDays" -> 3
        reps == 10
    IN <<sets, reps>>

\* lines 632-657 with "Bodyweight" falling to the default equipment multiplier 0.8
calculateSuggestedWeightNoBodyweightCase(exercise, profile) ==
    LET baseWeight == CASE profile.gender = "male" -> profile.bodyweight * 10
                        [] profile.gender = "female" -> profile.bodyweight * 7
                        [] profile.gender = "other" -> profile.bodyweight * 8
        muscleMultiplier == CASE exercise.primaryMuscleGroup = "Quads" -> 26
                              [] exercise.primaryMuscleGroup = "Hamstrings" -> 25
                              [] exercise.primaryMuscleGroup = "Glutes" -> 22
                              [] exercise.primaryMuscleGroup = "Calves" -> 22
                              [] exercise.primaryMuscleGroup = "Core" -> 6
                              [] OTHER -> 20
        equipmentMultiplier == CASE exercise.equipmentType = "Barbell" -> 12
                                 [] exercise.equipmentType = "Dumbbell" -> 8
                                 [] exercise.equipmentType = "Machine" -> 10
                                 [] exercise.equipmentType = "Cable" -> 9
                                 [] exercise.equipmentType = "Band" -> 4
                                 [] OTHER -> 8
    IN Max(0, baseWeight * muscleMultiplier * equipmentMultiplier)

\* multipliers in twentieths (gender: 0.5, 0.35, 0.4; muscle: 1.3, 1.25, 1.1, 1.1, 0.3, 1.0)
\* and tenths (equipment); the product is the weight in 1/4000
calculateSuggestedWeight(exercise, profile) ==
    LET baseWeight == CASE profile.gender = "male" -> profile.bodyweight * 10
                        [] profile.gender = "female" -> profile.bodyweight * 7
                        [] profile.gender = "other" -> profile.bodyweight * 8
        muscleMultiplier == CASE exercise.primaryMuscleGroup = "Quads" -> 26
                              [] exercise.primaryMuscleGroup = "Hamstrings" -> 25
                              [] exercise.primaryMuscleGroup = "Glutes" -> 22
                              [] exercise.primaryMuscleGroup = "Calves" -> 22
                              [] exercise.primaryMuscleGroup = "Core" -> 6
                              [] OTHER -> 20
        equipmentMultiplier == CASE exercise.equipmentType = "Barbell" -> 12
                                 [] exercise.equipmentType = "Dumbbell" -> 8
                                 [] exercise.equipmentType = "Machine" -> 10
                                 [] exercise.equipmentType = "Cable" -> 9
                                 [] exercise.equipmentType = "Bodyweight" -> 0
                                 [] exercise.equipmentType = "Band" -> 4
                                 [] OTHER -> 8
        weight == baseWeight * muscleMultiplier * equipmentMultiplier
    IN Max(0, weight)

RECURSIVE foldVolume(_, _)
\* `foldLeft(0.0, (acc, we) => acc + sets * reps * suggestedWeight)`
foldVolume(acc, exercises) ==
    IF exercises = <<>> THEN acc
    ELSE LET we == Head(exercises)
         IN foldVolume(acc + (toF(we.sets) * toF(we.reps) * we.suggestedWeight),
                       Tail(exercises))

(***************************************************************************)
(* Deterministic shuffle.  shuffleArray reads shuffleCounter and adds 1 to *)
(* it; here the value it reads is the parameter counter, and the callers   *)
(* account for the increment.                                              *)
(***************************************************************************)
RECURSIVE principalHashFrom(_, _)
principalHashFrom(hash, bytes) ==
    IF bytes = <<>> THEN hash
    ELSE principalHashFrom((hash * 31 + Head(bytes)) % 1000000007, Tail(bytes))

principalHash(p) == principalHashFrom(0, p)

RECURSIVE shuffleLoopOverwrites(_, _, _)
\* the while loop of shuffleArray without `mutableArr[j] := temp`
shuffleLoopOverwrites(mutableArr, seed, i0) ==
    IF i0 > 1
    THEN LET i == i0 - 1
             j == (seed + i) % (i + 1)
             written == [mutableArr EXCEPT ![i + 1] = mutableArr[j + 1]]
         IN shuffleLoopOverwrites(written, seed, i)
    ELSE mutableArr

RECURSIVE shuffleLoopFixedModulus(_, _, _)
\* the while loop of shuffleArray with `% size` for `% (i + 1)`
shuffleLoopFixedModulus(mutableArr, seed, i0) ==
    IF i0 > 1
    THEN LET i == i0 - 1
             j == (seed + i) % Len(mutableArr)
             temp == mutableArr[i + 1]
             swapped == [mutableArr EXCEPT ![i + 1] = mutableArr[j + 1], ![j + 1] = temp]
         IN shuffleLoopFixedModulus(swapped, seed, i)
    ELSE mutableArr

RECURSIVE shuffleLoop(_, _, _)
\* the while loop of shuffleArray; positions are 0-based in the source
shuffleLoop(mutableArr, seed, i0) ==
    IF i0 > 1
    THEN LET i == i0 - 1
             j == (seed + i) % (i + 1)
             temp == mutableArr[i + 1]
             swapped == [mutableArr EXCEPT ![i + 1] = mutableArr[j + 1], ![j + 1] = temp]
         IN shuffleLoop(swapped, seed, i)
    ELSE mutableArr

RECURSIVE shuffleSwaps(_, _)
\* the 0-based index pairs <<i, j>> the while loop reads and writes, in order
shuffleSwaps(seed, i0) ==
    IF i0 > 1
    THEN LET i == i0 - 1
             j == (seed + i) % (i + 1)
         IN <<(<<i, j>>)>> \o shuffleSwaps(seed, i)
    ELSE <<>>

\* shuffleArray with `seed = principalHash(caller)`, the counter left out
shuffleArrayIgnoresCounter(arr, caller, counter) ==
    shuffleLoop(arr, principalHash(caller), Len(arr))

shuffleArray(arr, caller, counter) ==
    LET seed == principalHash(caller) + counter
        size == Len(arr)
    IN shuffleLoop(arr, seed, size)

(***************************************************************************)
(* Workout assembly.                                                       *)
(***************************************************************************)
RECURSIVE uniqueLoopTwice(_, _, _)
uniqueLoopTwice(exercises, seen, builder) ==
    IF exercises = <<>> THEN builder
    ELSE LET exercise == Head(exercises)
             name == exercise.exercise.name
         IN IF name \in seen
            THEN uniqueLoopTwice(Tail(exercises), seen, Append(builder, exercise))
            ELSE uniqueLoopTwice(Tail(exercises), seen \cup {name},
                                 Append(Append(builder, exercise), exercise))

\* a dedup whose `builder.add(exercise)` also runs after the switch
uniqueByNameAddsTwice(exercises) == uniqueLoopTwice(exercises, {}, <<>>)

RECURSIVE uniqueLoop(_, _, _)
uniqueLoop(exercises, seen, builder) ==
    IF exercises = <<>> THEN builder
    ELSE LET exercise == Head(exercises)
             name == exercise.exercise.name
         IN IF name \in seen
            THEN uniqueLoop(Tail(exercises), seen, builder)
            ELSE uniqueLoop(Tail(exercises), seen \cup {name}, Append(builder, exercise))

uniqueByName(exercises) == uniqueLoop(exercises, {}, <<>>)

\* `exercises.filter(e => toLower(e.primaryMuscleGroup) == toLower(group))`
filterByGroup(exercises, group) ==
    LET matches(e) == toLower(e.primaryMuscleGroup) = toLower(group)
    IN SelectSeq(exercises, matches)

\* the filter of the library, tabulated once per group name: every call passes exerciseLibrary
libraryByGroup ==
    [g \in {MuscleGroups[i] : i \in 1..Len(MuscleGroups)} |-> filterByGroup(exerciseLibrary, g)]

\* lines 582-620 taking one entry more than the limit
buildShuffledSectionTakesOneMore(caller, profile, exercises, group, groupLimit, counter) ==
    LET groupExercises == IF group \in DOMAIN libraryByGroup /\ exercises = exerciseLibrary
                          THEN libraryByGroup[group]
                          ELSE filterByGroup(exercises, group)
        shuffledGroup == shuffleArray(groupExercises, caller, counter)
        count == Min(Len(shuffledGroup), groupLimit + 1)
        selected == IF Len(shuffledGroup) > count
                    THEN [i \in 1..count |-> shuffledGroup[i]]
                    ELSE shuffledGroup
        mapped == [i \in 1..Len(selected) |->
                     LET e == selected[i]
                         sr == calculateSetsAndReps(profile)
                     IN [exercise |-> e,
                         sets |-> sr[1],
                         reps |-> sr[2],
                         suggestedWeight |-> calculateSuggestedWeight(e, profile),
                         setData |-> <<>>]]
    IN mapped

buildShuffledSectionFromArray(caller, profile, exercises, group, groupLimit, counter) ==
    LET groupExercises == IF group \in DOMAIN libraryByGroup /\ exercises = exerciseLibrary
                          THEN libraryByGroup[group]
                          ELSE filterByGroup(exercises, group)
        shuffledGroup == shuffleArray(groupExercises, caller, counter)
        count == Min(Len(shuffledGroup), groupLimit)
        selected == IF Len(shuffledGroup) > count
                    THEN [i \in 1..count |-> shuffledGroup[i]]
                    ELSE shuffledGroup
        mapped == [i \in 1..Len(selected) |->
                     LET e == selected[i]
                         sr == calculateSetsAndReps(profile)
                     IN [exercise |-> e,
                         sets |-> sr[1],
                         reps |-> sr[2],
                         suggestedWeight |-> calculateSuggestedWeight(e, profile),
                         setData |-> <<>>]]
    IN mapped

\* replies
Err(e) == [tag |-> "err", err |-> e]
Ok(v) == [tag |-> "ok", err |-> "none", value |-> v]

\* lines 781-783 with the bound dropped
cappedExercisesNoCap(finalExercises) == finalExercises

\* lines 781-783 with a cap of 10
cappedExercisesAtTen(finalExercises) ==
    IF Len(finalExercises) > 10
    THEN [i \in 1..10 |-> finalExercises[i]]
    ELSE finalExercises

\* lines 781-783
cappedExercises(finalExercises) ==
    IF Len(finalExercises) > 8
    THEN [i \in 1..8 |-> finalExercises[i]]
    ELSE finalExercises

\* lines 784-787 with the `toF(we.reps)` factor left out
totalVolumeOfNoReps(exercises) ==
    LET RECURSIVE f(_, _)
        f(acc, es) == IF es = <<>> THEN acc
                      ELSE f(acc + (toF(Head(es).sets) * Head(es).suggestedWeight), Tail(es))
    IN f(0, exercises)

\* lines 784-787, 844-846, 885-887
totalVolumeOf(exercises) == foldVolume(0, exercises)

\* lines 790-796
lowerBodyNote(finalLegCount, capped) ==
    IF finalLegCount = 0 THEN "Core-focused session"
    ELSE IF Len(capped) <= 3 THEN "Limited leg exercises due to muscle recovery"
    ELSE "Full lower-body workout (limited volume)"

\* the five sections of generateLowerBodyWorkout, lines 719-747
lowerBodySections(caller, profile, currentRecovery, counter) ==
    LET quadsRequestedCount == getExerciseCountForGroup("Quads", currentRecovery)
        hamstringsRequestedCount == getExerciseCountForGroup("Hamstrings", currentRecovery)
        glutesRequestedCount == getExerciseCountForGroup("Glutes", currentRecovery)
        calvesRequestedCount == getExerciseCountForGroup("Calves", currentRecovery)
        coreRequestedCount == getExerciseCountForGroup("Core", currentRecovery)
    IN [quadsSection |-> buildShuffledSectionFromArray(
                            caller, profile, exerciseLibrary, "Quads", quadsRequestedCount, counter),
        hamstringsSection |-> buildShuffledSectionFromArray(
                            caller, profile, exerciseLibrary, "Hamstrings", hamstringsRequestedCount,
                            counter + 1),
        glutesSection |-> buildShuffledSectionFromArray(
                            caller, profile, exerciseLibrary, "Glutes", glutesRequestedCount,
                            counter + 2),
        calvesSection |-> buildShuffledSectionFromArray(
                            caller, profile, exerciseLibrary, "Calves", calvesRequestedCount,
                            counter + 3),
        coreSection |-> buildShuffledSectionFromArray(
                            caller, profile, exerciseLibrary, "Core", coreRequestedCount,
                            counter + 4),
        counter |-> counter + 5]

\* lines 749-802 with an optimizationFailed return when no leg exercise was selected
lowerBodyReplyFailsWithoutLegs(s) ==
    LET totalLegCount == Len(s.quadsSection) + Len(s.hamstringsSection)
                         + Len(s.glutesSection) + Len(s.calvesSection)
        finalExercises == uniqueByName(s.quadsSection \o s.hamstringsSection \o s.glutesSection
                                       \o s.calvesSection \o s.coreSection)
        capped == cappedExercises(finalExercises)
    IN IF totalLegCount = 0
       THEN Err("optimizationFailed") @@ [locals |-> [finalExercises |-> finalExercises,
                                                       finalLegCount |-> totalLegCount]]
       ELSE Ok([exercises |-> capped, timestamp |-> now,
                totalVolume |-> totalVolumeOf(capped),
                note |-> lowerBodyNote(totalLegCount, capped)])
            @@ [locals |-> [finalExercises |-> finalExercises, finalLegCount |-> totalLegCount]]

\* lines 749-802; locals keeps what the Debug.print lines report
lowerBodyReply(s) ==
    LET totalLegCount == Len(s.quadsSection) + Len(s.hamstringsSection)
                         + Len(s.glutesSection) + Len(s.calvesSection)
        totalExerciseCount == totalLegCount + Len(s.coreSection)
        allExercises == s.quadsSection \o s.hamstringsSection \o s.glutesSection
                        \o s.calvesSection \o s.coreSection
        finalExercises == uniqueByName(allExercises)
        finalLegCount == Len(s.quadsSection) + Len(s.hamstringsSection)
                         + Len(s.glutesSection) + Len(s.calvesSection)
        capped == cappedExercises(finalExercises)
        totalVolume == totalVolumeOf(capped)
        note == lowerBodyNote(finalLegCount, capped)
    IN IF totalExerciseCount = 0
       THEN Ok([exercises |-> <<>>, timestamp |-> now, totalVolume |-> 0,
                note |-> "All lower muscle groups recovering"])
            @@ [locals |-> [finalExercises |-> <<>>, finalLegCount |-> totalLegCount]]
       ELSE IF Len(finalExercises) = 0
       THEN Ok([exercises |-> <<>>, timestamp |-> now, totalVolume |-> 0,
                note |-> "All lower body and core groups recovering"])
            @@ [locals |-> [finalExercises |-> finalExercises, finalLegCount |-> finalLegCount]]
       ELSE Ok([exercises |-> capped, timestamp |-> now, totalVolume |-> totalVolume,
                note |-> note])
            @@ [locals |-> [finalExercises |-> finalExercises, finalLegCount |-> finalLegCount]]

RECURSIVE buildGroups(_, _, _, _, _, _)
\* the `for (group in muscleGroupOrder.vals())` loop of the upper- and full-body generators
buildGroups(caller, profile, currentRecovery, muscleGroupOrder, allExercises, counter) ==
    IF muscleGroupOrder = <<>> THEN [allExercises |-> allExercises, counter |-> counter]
    ELSE LET group == Head(muscleGroupOrder)
             limit == getExerciseCountForGroup(group, currentRecovery)
         IN IF limit > 0
            THEN LET section == buildShuffledSectionFromArray(
                                    caller, profile, exerciseLibrary, group, limit, counter)
                 IN buildGroups(caller, profile, currentRecovery, Tail(muscleGroupOrder),
                                allExercises \o section, counter + 1)
            ELSE buildGroups(caller, profile, currentRecovery, Tail(muscleGroupOrder),
                             allExercises, counter)

\* lines 836-853 and 877-894 with `size <= 10` for `size < 10`
orderedReplyOffByOne(built) ==
    LET allExercises == uniqueByName(built)
        size == Len(allExercises)
        note == IF size <= 10 THEN "Reduced volume due to recovery constraints." ELSE ""
    IN IF size = 0
       THEN Err("optimizationFailed") @@ [locals |-> [finalExercises |-> allExercises]]
       ELSE Ok([exercises |-> allExercises, timestamp |-> now,
                totalVolume |-> totalVolumeOf(allExercises), note |-> note])
            @@ [locals |-> [finalExercises |-> allExercises]]

\* lines 836-853 (full body) and 877-894 (upper body): the same text twice
orderedReply(built) ==
    LET allExercises == uniqueByName(built)
        size == Len(allExercises)
        note == IF size < 10 THEN "Reduced volume due to recovery constraints." ELSE ""
        totalVolume == totalVolumeOf(allExercises)
    IN IF size = 0
       THEN Err("optimizationFailed") @@ [locals |-> [finalExercises |-> allExercises]]
       ELSE Ok([exercises |-> allExercises, timestamp |-> now,
                totalVolume |-> totalVolume, note |-> note])
            @@ [locals |-> [finalExercises |-> allExercises]]

fullBodyOrder ==
    <<"Chest", "Back", "Shoulders", "Arms", "Quads", "Hamstrings", "Glutes", "Calves", "Core">>

upperBodyOrder == <<"Chest", "Back", "Shoulders", "Arms", "Core">>

\* `switch (recoveryState.get(caller))` of the generators and the recovery queries
currentRecoveryOf(caller) ==
    IF recoveryState[caller] = null
    THEN getDefaultRecoveryState
    ELSE refreshAllRecoveryPercentages(recoveryState[caller])

(***************************************************************************)
(* Inputs.                                                                 *)
(***************************************************************************)
Profiles ==
    { [gender |-> "male", bodyweight |-> 80, weightUnit |-> "kg",
       trainingFrequency |-> "threeDays", darkMode |-> FALSE, restTime |-> 60,
       muscleGroupRestInterval |-> 72] }

FineProfiles ==
    { [gender |-> "female", bodyweight |-> 60, weightUnit |-> "kg",
       trainingFrequency |-> "fourDays", darkMode |-> TRUE, restTime |-> 90,
       muscleGroupRestInterval |-> 48] }

exerciseNamed(n) ==
    exerciseLibrary[CHOOSE i \in 1..Len(exerciseLibrary) : exerciseLibrary[i].name = n]

\* a workout as the session page submits it: one logged set per exercise
workoutOf(names) ==
    [exercises |-> [i \in 1..Len(names) |->
                      [exercise |-> exerciseNamed(names[i]), sets |-> 3, reps |-> 10,
                       suggestedWeight |-> 0, setData |-> <<[weight |-> 0, reps |-> 10]>>]],
     timestamp |-> 0,
     totalVolume |-> 0]

LegsDay ==
    workoutOf(<<"Barbell Squats", "Romanian Deadlifts", "Hip Thrusts", "Standing Calf Raises">>)
PosteriorDay ==
    workoutOf(<<"Leg Curls", "Glute Bridges", "Seated Calf Raises", "Pull-Ups">>)
UpperCoreDay ==
    workoutOf(<<"Bench Press", "Pull-Ups", "Shoulder Press", "Bicep Curls", "Planks">>)

Workouts == {LegsDay, PosteriorDay}
FineWorkouts == {LegsDay, UpperCoreDay}
SessionWorkouts == {LegsDay}
LongWorkouts == {UpperCoreDay}

\* the instants at which the clock is read: 15 ticks are 50% of 72 hours, 24 ticks 80%
ClockValues == {0, 15, MaxTime}
\* a finer clock: 2 ticks are 10% of 48 hours, 3 ticks 10% of 72 hours
FineClockValues == {0, 1, 3}
\* a long clock: 10 ticks are 24 hours, 20 ticks 48 hours, 30 ticks 72 hours
LongClockValues == {0, 10, 20, 30}

(***************************************************************************)
(* The actor.                                                              *)
(***************************************************************************)
Init ==
    /\ TEST_RECOVERY_MODE \in BOOLEAN
    /\ now = 0
    /\ shuffleCounter = 0
    /\ userProfiles = [p \in AllPrincipals |-> null]
    /\ workoutHistory = [p \in AllPrincipals |-> <<>>]
    /\ recoveryState = [p \in AllPrincipals |-> null]
    /\ setConfigurations = [p \in AllPrincipals |-> <<>>]
    /\ ret = [op |-> "init", caller |-> anonymous, tag |-> "ok", err |-> "none"]

Reply(op, caller, reply) == [op |-> op, caller |-> caller] @@ reply

\* Time.now() never goes back
Tick ==
    /\ \E t \in ClockValues : t > now /\ now' = t
    /\ UNCHANGED <<TEST_RECOVERY_MODE, shuffleCounter, userProfiles, workoutHistory,
                   recoveryState, setConfigurations, ret>>

TickFine ==
    /\ \E t \in FineClockValues : t > now /\ now' = t
    /\ UNCHANGED <<TEST_RECOVERY_MODE, shuffleCounter, userProfiles, workoutHistory,
                   recoveryState, setConfigurations, ret>>

\* lines 423-429 with the profile stored under every key of the map
saveCallerUserProfileForAll(caller, profile) ==
    /\ IF ~hasPermission(caller, "user")
       THEN /\ ret' = Reply("saveCallerUserProfile", caller, Err("unauthorized"))
            /\ UNCHANGED userProfiles
       ELSE /\ userProfiles' = [p \in DOMAIN userProfiles |-> profile]
            /\ ret' = Reply("saveCallerUserProfile", caller, Ok(<<>>))
    /\ UNCHANGED <<TEST_RECOVERY_MODE, now, shuffleCounter, workoutHistory, recoveryState,
                   setConfigurations>>

saveCallerUserProfile(caller, profile) ==
    /\ IF ~hasPermission(caller, "user")
       THEN /\ ret' = Reply("saveCallerUserProfile", caller, Err("unauthorized"))
            /\ UNCHANGED userProfiles
       ELSE /\ userProfiles' = [userProfiles EXCEPT ![caller] = profile]
            /\ ret' = Reply("saveCallerUserProfile", caller, Ok(<<>>))
    /\ UNCHANGED <<TEST_RECOVERY_MODE, now, shuffleCounter, workoutHistory, recoveryState,
                   setConfigurations>>

saveWorkout(caller, workout) ==
    /\ Len(workoutHistory[caller]) < MaxHistory
    /\ IF ~hasPermission(caller, "user")
       THEN /\ ret' = Reply("saveWorkout", caller, Err("unauthorized"))
            /\ UNCHANGED <<workoutHistory, recoveryState>>
       ELSE LET currentRecovery == IF recoveryState[caller] = null
                                   THEN getDefaultRecoveryState
                                   ELSE recoveryState[caller]
                freshRecovery == refreshAllRecoveryPercentages(currentRecovery)
                updatedRecovery ==
                    [chest |-> updateMuscleRecovery(freshRecovery.chest, workout, <<"Chest">>, 72),
                     back |-> updateMuscleRecovery(freshRecovery.back, workout, <<"Back">>, 72),
                     shoulders |->
                         updateMuscleRecovery(freshRecovery.shoulders, workout, <<"Shoulders">>, 72),
                     arms |-> updateMuscleRecovery(freshRecovery.arms, workout, <<"Arms">>, 72),
                     core |-> updateMuscleRecovery(freshRecovery.core, workout, <<"Core">>, 48),
                     quadsRecovery |->
                         updateMuscleRecovery(freshRecovery.quadsRecovery, workout, <<"Quads">>, 72),
                     hamstringsRecovery |->
                         updateMuscleRecovery(freshRecovery.hamstringsRecovery, workout,
                                              <<"Hamstrings">>, 72),
                     glutesRecovery |->
                         updateMuscleRecovery(freshRecovery.glutesRecovery, workout, <<"Glutes">>, 72),
                     calvesRecovery |->
                         updateMuscleRecovery(freshRecovery.calvesRecovery, workout, <<"Calves">>, 72)]
            IN /\ workoutHistory' =
                     [workoutHistory EXCEPT ![caller] = Append(workoutHistory[caller], workout)]
               /\ recoveryState' = [recoveryState EXCEPT ![caller] = updatedRecovery]
               /\ ret' = Reply("saveWorkout", caller, Ok(<<>>))
    /\ UNCHANGED <<TEST_RECOVERY_MODE, now, shuffleCounter, userProfiles, setConfigurations>>

getRecoveryState(caller) ==
    /\ IF ~hasPermission(caller, "user")
       THEN ret' = Reply("getRecoveryState", caller, Err("unauthorized"))
       ELSE LET state == currentRecoveryOf(caller)
                legs == calculateLegsFromSubgroups(state.quadsRecovery, state.hamstringsRecovery,
                                                   state.glutesRecovery, state.calvesRecovery)
            IN ret' = Reply("getRecoveryState", caller, Ok(state @@ [legs |-> legs]))
    /\ UNCHANGED <<TEST_RECOVERY_MODE, now, shuffleCounter, userProfiles, workoutHistory,
                   recoveryState, setConfigurations>>

getLegSubgroupRecovery(caller) ==
    /\ IF ~hasPermission(caller, "user")
       THEN ret' = Reply("getLegSubgroupRecovery", caller, Err("unauthorized"))
       ELSE LET state == currentRecoveryOf(caller)
            IN ret' = Reply("getLegSubgroupRecovery", caller,
                            Ok([quads |-> state.quadsRecovery,
                                hamstrings |-> state.hamstringsRecovery,
                                glutes |-> state.glutesRecovery,
                                calves |-> state.calvesRecovery,
                                legs |-> calculateLegsFromSubgroups(
                                             state.quadsRecovery, state.hamstringsRecovery,
                                             state.glutesRecovery, state.calvesRecovery)]))
    /\ UNCHANGED <<TEST_RECOVERY_MODE, now, shuffleCounter, userProfiles, workoutHistory,
                   recoveryState, setConfigurations>>

\* lines 704-803 with the refreshed recovery state written back to recoveryState
generateLowerBodyWorkoutStoresRefresh(caller) ==
    /\ IF ~hasPermission(caller, "user")
       THEN /\ ret' = Reply("generateLowerBodyWorkout", caller, Err("unauthorized"))
            /\ UNCHANGED <<shuffleCounter, recoveryState>>
       ELSE IF userProfiles[caller] = null
       THEN /\ ret' = Reply("generateLowerBodyWorkout", caller, Err("userProfileNotFound"))
            /\ UNCHANGED <<shuffleCounter, recoveryState>>
       ELSE LET profile == userProfiles[caller]
                currentRecovery == currentRecoveryOf(caller)
                s == lowerBodySections(caller, profile, currentRecovery, shuffleCounter)
            IN /\ s.counter <= MaxShuffle
               /\ shuffleCounter' = s.counter
               /\ recoveryState' = [recoveryState EXCEPT ![caller] = currentRecovery]
               /\ ret' = Reply("generateLowerBodyWorkout", caller, lowerBodyReply(s))
    /\ UNCHANGED <<TEST_RECOVERY_MODE, now, userProfiles, workoutHistory, setConfigurations>>

generateLowerBodyWorkout(caller) ==
    /\ IF ~hasPermission(caller, "user")
       THEN /\ ret' = Reply("generateLowerBodyWorkout", caller, Err("unauthorized"))
            /\ UNCHANGED shuffleCounter
       ELSE IF userProfiles[caller] = null
       THEN /\ ret' = Reply("generateLowerBodyWorkout", caller, Err("userProfileNotFound"))
            /\ UNCHANGED shuffleCounter
       ELSE LET profile == userProfiles[caller]
                currentRecovery == currentRecoveryOf(caller)
                s == lowerBodySections(caller, profile, currentRecovery, shuffleCounter)
            IN /\ s.counter <= MaxShuffle
               /\ shuffleCounter' = s.counter
               /\ ret' = Reply("generateLowerBodyWorkout", caller, lowerBodyReply(s))
    /\ UNCHANGED <<TEST_RECOVERY_MODE, now, userProfiles, workoutHistory, recoveryState,
                   setConfigurations>>

\* the body shared, word for word, by generateFullBodyWorkout (lines 806-853) and
\* generateUpperBodyWorkout (lines 857-894): the reply and the shuffle counter after the call
\* lines 805-895 with a default profile, under the override, for a caller who stored none
generateInOrderDefaultProfile(caller, muscleGroupOrder) ==
    IF ~hasPermission(caller, "user")
    THEN [reply |-> Err("unauthorized"), counter |-> shuffleCounter]
    ELSE IF userProfiles[caller] = null /\ ~TEST_RECOVERY_MODE
    THEN [reply |-> Err("userProfileNotFound"), counter |-> shuffleCounter]
    ELSE LET profile == IF userProfiles[caller] = null
                        THEN [gender |-> "male", bodyweight |-> 65, weightUnit |-> "kg",
                              trainingFrequency |-> "threeDays", darkMode |-> FALSE,
                              restTime |-> 60, muscleGroupRestInterval |-> 72]
                        ELSE userProfiles[caller]
             currentRecovery == currentRecoveryOf(caller)
             built == buildGroups(caller, profile, currentRecovery, muscleGroupOrder, <<>>,
                                  shuffleCounter)
         IN [reply |-> orderedReply(built.allExercises), counter |-> built.counter]

generateInOrder(caller, muscleGroupOrder) ==
    IF ~hasPermission(caller, "user")
    THEN [reply |-> Err("unauthorized"), counter |-> shuffleCounter]
    ELSE IF userProfiles[caller] = null
    THEN [reply |-> Err("userProfileNotFound"), counter |-> shuffleCounter]
    ELSE LET profile == userProfiles[caller]
             currentRecovery == currentRecoveryOf(caller)
             built == buildGroups(caller, profile, currentRecovery, muscleGroupOrder, <<>>,
                                  shuffleCounter)
         IN [reply |-> orderedReply(built.allExercises), counter |-> built.counter]

generateFullBodyWorkout(caller) ==
    LET out == generateInOrder(caller, fullBodyOrder)
    IN /\ out.counter <= MaxShuffle
       /\ shuffleCounter' = out.counter
       /\ ret' = Reply("generateFullBodyWorkout", caller, out.reply)
       /\ UNCHANGED <<TEST_RECOVERY_MODE, now, userProfiles, workoutHistory, recoveryState,
                      setConfigurations>>

generateUpperBodyWorkout(caller) ==
    LET out == generateInOrder(caller, upperBodyOrder)
    IN /\ out.counter <= MaxShuffle
       /\ shuffleCounter' = out.counter
       /\ ret' = Reply("generateUpperBodyWorkout", caller, out.reply)
       /\ UNCHANGED <<TEST_RECOVERY_MODE, now, userProfiles, workoutHistory, recoveryState,
                      setConfigurations>>

\* the muscleGroup texts a client sends: a catalog name, one in another case, and a
\* name no catalog entry carries
AlternativeGroups == {"Hamstrings", "CORE", "legs"}

\* a query: the reply is computed on the current state and nothing it assigns is kept,
\* the `shuffleCounter += 1` of shuffleArray included
getAlternativeExercises(caller, muscleGroup) ==
    /\ IF ~hasPermission(caller, "user")
       THEN ret' = Reply("getAlternativeExercises", caller, Err("unauthorized"))
       ELSE LET alternatives == filterByGroup(exerciseLibrary, muscleGroup)
                shuffled == shuffleArray(alternatives, caller, shuffleCounter)
                limited == IF Len(shuffled) > 15
                           THEN [i \in 1..15 |-> shuffled[i]]
                           ELSE shuffled
            IN ret' = Reply("getAlternativeExercises", caller,
                            Ok(limited) @@ [locals |-> [alternatives |-> alternatives,
                                                        counter |-> shuffleCounter]])
    /\ UNCHANGED <<TEST_RECOVERY_MODE, now, shuffleCounter, userProfiles, workoutHistory,
                   recoveryState, setConfigurations>>

\* lines 920-941 with the upper comparison `reps >= 12`
updateSuggestedWeightFromTwelve(caller, exerciseName, weight, reps) ==
    /\ IF ~hasPermission(caller, "user")
       THEN /\ ret' = Reply("updateSuggestedWeightDuringSession", caller, Err("unauthorized"))
            /\ UNCHANGED setConfigurations
       ELSE LET newWeight == IF reps >= 12 THEN (weight * 1075) \div 1000
                             ELSE IF reps < 6 THEN (weight * 925) \div 1000
                             ELSE weight
                userConfigs == setConfigurations[caller]
                newConfig == [weight |-> newWeight, reps |-> 10, sets |-> 3]
                added == [n \in DOMAIN userConfigs \cup {exerciseName} |->
                            IF n = exerciseName THEN newConfig ELSE userConfigs[n]]
            IN /\ setConfigurations' = [setConfigurations EXCEPT ![caller] = added]
               /\ ret' = Reply("updateSuggestedWeightDuringSession", caller,
                               Ok(newWeight) @@ [locals |-> [exerciseName |-> exerciseName,
                                                             weight |-> weight,
                                                             reps |-> reps]])
    /\ UNCHANGED <<TEST_RECOVERY_MODE, now, shuffleCounter, userProfiles, workoutHistory,
                   recoveryState>>

\* weights are in 1/4000 kg, as in calculateSuggestedWeight: 1.075 and 0.925 are 1075 and
\* 925 thousandths
updateSuggestedWeightDuringSession(caller, exerciseName, weight, reps) ==
    /\ IF ~hasPermission(caller, "user")
       THEN /\ ret' = Reply("updateSuggestedWeightDuringSession", caller, Err("unauthorized"))
            /\ UNCHANGED setConfigurations
       ELSE LET newWeight == IF reps > 12 THEN (weight * 1075) \div 1000
                             ELSE IF reps < 6 THEN (weight * 925) \div 1000
                             ELSE weight
                userConfigs == setConfigurations[caller]
                newConfig == [weight |-> newWeight, reps |-> 10, sets |-> 3]
                added == [n \in DOMAIN userConfigs \cup {exerciseName} |->
                            IF n = exerciseName THEN newConfig ELSE userConfigs[n]]
            IN /\ setConfigurations' = [setConfigurations EXCEPT ![caller] = added]
               /\ ret' = Reply("updateSuggestedWeightDuringSession", caller,
                               Ok(newWeight) @@ [locals |-> [exerciseName |-> exerciseName,
                                                             weight |-> weight,
                                                             reps |-> reps]])
    /\ UNCHANGED <<TEST_RECOVERY_MODE, now, shuffleCounter, userProfiles, workoutHistory,
                   recoveryState>>

\* exercise names, weights (40 kg) and repetitions a session reports
SessionNames == {"Barbell Squats", "Planks"}
SessionWeights == {160000}
SessionReps == {5, 6, 12, 13}
\* the two authorized users
Users == {alice, bob}

Calls(callers, profiles, workouts) ==
    \/ \E caller \in callers, profile \in profiles : saveCallerUserProfile(caller, profile)
    \/ \E caller \in callers, workout \in workouts : saveWorkout(caller, workout)
    \/ \E caller \in callers : getRecoveryState(caller)
    \/ \E caller \in callers : getLegSubgroupRecovery(caller)
    \/ \E caller \in callers : generateLowerBodyWorkout(caller)
    \/ \E caller \in callers : generateFullBodyWorkout(caller)
    \/ \E caller \in callers : generateUpperBodyWorkout(caller)
    \/ \E caller \in callers, muscleGroup \in AlternativeGroups :
          getAlternativeExercises(caller, muscleGroup)

Next ==
    \/ Tick
    \/ Calls(Principals, Profiles, Workouts)

Spec == Init /\ [][Next]_vars

NextFine ==
    \/ TickFine
    \/ Calls(Principals, FineProfiles, FineWorkouts)

\* the same actor on the finer clock
SpecFine == Init /\ [][NextFine]_vars

TickLong ==
    /\ \E t \in LongClockValues : t > now /\ now' = t
    /\ UNCHANGED <<TEST_RECOVERY_MODE, shuffleCounter, userProfiles, workoutHistory,
                   recoveryState, setConfigurations, ret>>

NextLong ==
    \/ TickLong
    \/ Calls(Principals, Profiles, LongWorkouts)

\* the same actor over three days
SpecLong == Init /\ [][NextLong]_vars

NextSession ==
    \/ Calls(Principals, Profiles, SessionWorkouts)
    \/ \E caller \in Principals, exerciseName \in SessionNames,
          weight \in SessionWeights, reps \in SessionReps :
          updateSuggestedWeightDuringSession(caller, exerciseName, weight, reps)

\* the actor with the in-session weight update, at one instant; no other method reads
\* setConfigurations
SpecSession == Init /\ [][NextSession]_vars

NextUsers ==
    \/ \E caller \in Users, profile \in Profiles : saveCallerUserProfile(caller, profile)
    \/ \E caller \in Users, workout \in SessionWorkouts : saveWorkout(caller, workout)
    \/ \E caller \in Users : generateLowerBodyWorkout(caller)
    \/ \E caller \in Users : generateFullBodyWorkout(caller)
    \/ \E caller \in Users : generateUpperBodyWorkout(caller)
    \/ \E caller \in Users, exerciseName \in {"Barbell Squats"}, weight \in SessionWeights :
          updateSuggestedWeightDuringSession(caller, exerciseName, weight, 13)

\* the update methods of the actor with two authorized users, at one instant
SpecUsers == Init /\ [][NextUsers]_vars

(***************************************************************************)
(* Properties.  ret is the reply of the last call; a generator's reply     *)
(* leaves now, userProfiles and recoveryState as the call read them.       *)
(***************************************************************************)
GenerationOps ==
    {"generateLowerBodyWorkout", "generateFullBodyWorkout", "generateUpperBodyWorkout"}

\* the last call was op and it returned a plan
ReturnedPlan(ops) == ret.op \in ops /\ ret.tag = "ok"

\* the last call came from an authorized caller who has a stored profile
CallerHasProfile == hasPermission(ret.caller, "user") /\ userProfiles[ret.caller] # null

\* the muscle groups of a list of planned exercises
GroupsOf(exercises) == {exercises[i].exercise.primaryMuscleGroup : i \in 1..Len(exercises)}

\* C1: every plan a generator returns has pairwise distinct exercise names
C1_DistinctNames ==
    ReturnedPlan(GenerationOps) =>
        \A i, j \in 1..Len(ret.value.exercises) :
            i # j => ret.value.exercises[i].exercise.name # ret.value.exercises[j].exercise.name

C1_Witness ==
    /\ ReturnedPlan({"generateFullBodyWorkout"})
    /\ Len(ret.value.exercises) >= 10

\* C2: every plan of generateLowerBodyWorkout has at most 8 exercises
C2_LowerAtMostEight ==
    ReturnedPlan({"generateLowerBodyWorkout"}) => Len(ret.value.exercises) <= 8

C2_Witness ==
    /\ ReturnedPlan({"generateLowerBodyWorkout"})
    /\ Len(ret.locals.finalExercises) > 8
    /\ Len(ret.value.exercises) = 8

RECURSIVE SumSetsRepsWeight(_, _)
\* sets * reps * suggestedWeight summed over the entries n, n-1, ..., 1 of a list
SumSetsRepsWeight(exercises, n) ==
    IF n = 0 THEN 0
    ELSE exercises[n].sets * exercises[n].reps * exercises[n].suggestedWeight
         + SumSetsRepsWeight(exercises, n - 1)

\* C3: totalVolume of every returned plan is the sum of sets * reps * suggestedWeight over
\* exactly the returned exercises, and 0 for an empty list
C3_TotalVolumeIsSum ==
    ReturnedPlan(GenerationOps) =>
        /\ ret.value.totalVolume
             = SumSetsRepsWeight(ret.value.exercises, Len(ret.value.exercises))
        /\ ret.value.exercises = <<>> => ret.value.totalVolume = 0

\* a lower-body plan whose cap dropped exercises that carry volume
C3_Witness ==
    /\ ReturnedPlan({"generateLowerBodyWorkout"})
    /\ Len(ret.value.exercises) = 8
    /\ ret.value.totalVolume > 0
    /\ SumSetsRepsWeight(ret.locals.finalExercises, Len(ret.locals.finalExercises))
         > ret.value.totalVolume

InRange(r) == 0 <= r.recoveryPercentage /\ r.recoveryPercentage <= Pct(100)

\* C4: every recoveryPercentage stored for a user or reported by getRecoveryState or
\* getLegSubgroupRecovery, the derived legs value included, lies in [0, 100]
C4_PercentagesInRange ==
    /\ \A p \in Principals :
          recoveryState[p] # null =>
              \A f \in DOMAIN recoveryState[p] : InRange(recoveryState[p][f])
    /\ ReturnedPlan({"getRecoveryState", "getLegSubgroupRecovery"}) =>
          \A f \in DOMAIN ret.value : InRange(ret.value[f])

\* a report, outside override mode, of a group trained longer ago than its recovery time
C4_Witness ==
    /\ ~TEST_RECOVERY_MODE
    /\ ReturnedPlan({"getRecoveryState"})
    /\ recoveryState[ret.caller] # null
    /\ now - ret.value.core.lastTrained > 20
    /\ ret.value.core.recoveryPercentage = Pct(100)
    /\ ret.value.legs.recoveryPercentage < Pct(100)

\* the five sections when no exercise at all was selected
NoSelection ==
    [quadsSection |-> <<>>, hamstringsSection |-> <<>>, glutesSection |-> <<>>,
     calvesSection |-> <<>>, coreSection |-> <<>>, counter |-> shuffleCounter]

\* C5: for an authorized caller with a profile generateLowerBodyWorkout returns ok, never
\* optimizationFailed; an outcome with no selected exercise is an ok plan with an empty
\* list, totalVolume 0 and a note
C5_LowerNeverFails ==
    /\ ret.op = "generateLowerBodyWorkout" /\ CallerHasProfile =>
          /\ ret.tag = "ok"
          /\ ret.value.exercises = <<>> => ret.value.totalVolume = 0 /\ ret.value.note # ""
    /\ LET empty == lowerBodyReply(NoSelection)
       IN /\ empty.tag = "ok"
          /\ empty.value.exercises = <<>>
          /\ empty.value.totalVolume = 0
          /\ empty.value.note # ""

\* a lower-body plan returned while no leg subgroup had a quota
C5_Witness ==
    /\ ~TEST_RECOVERY_MODE
    /\ ReturnedPlan({"generateLowerBodyWorkout"})
    /\ CallerHasProfile
    /\ ret.locals.finalLegCount = 0

\* Chest, Back, Shoulders and Arms of the last caller are all below 65%
UpperGroupsBelow65 ==
    LET r == currentRecoveryOf(ret.caller)
    IN \A g \in {"Chest", "Back", "Shoulders", "Arms"} :
          calculateRecoveryPercentage(getLastTrained(g, r), 72) < Pct(65)

C7_UpperFullOutcome ==
    ret.op \in {"generateUpperBodyWorkout", "generateFullBodyWorkout"} /\ CallerHasProfile =>
        /\ (ret.tag = "err" /\ ret.err = "optimizationFailed") <=> ret.locals.finalExercises = <<>>
        /\ ret.tag = "ok" =>
              /\ ret.value.exercises = ret.locals.finalExercises
              /\ ret.value.note = "Reduced volume due to recovery constraints."
                   <=> Len(ret.value.exercises) < 10
              /\ ret.value.note = "" <=> Len(ret.value.exercises) >= 10

\* an upper-body plan of exactly 10 exercises, with the empty note
C7_Witness ==
    /\ ReturnedPlan({"generateUpperBodyWorkout"})
    /\ Len(ret.value.exercises) = 10
    /\ ret.value.note = ""

\* C8: the note of every lower-body plan follows the four-string decision tree: empty list,
\* no leg selection, at most 3 exercises, otherwise
C8_NoteDecisionTree ==
    ReturnedPlan({"generateLowerBodyWorkout"}) =>
        ret.value.note =
            IF ret.value.exercises = <<>> THEN "All lower muscle groups recovering"
            ELSE IF ret.locals.finalLegCount = 0
                 THEN "Core-focused session (leg subgroups recovering)"
            ELSE IF Len(ret.value.exercises) <= 3
                 THEN "Limited exercises due to muscle recovery"
            ELSE "Full lower-body workout"

\* the recovery of the last caller's leg subgroups and Core, as the call read it
LowerGroupsAtTen ==
    /\ hasPermission(ret.caller, "user")
    /\ recoveryState[ret.caller] # null
    /\ LET r == currentRecoveryOf(ret.caller)
       IN /\ \A f \in {"quadsRecovery", "hamstringsRecovery", "glutesRecovery",
                       "calvesRecovery"} : r[f].recoveryPercentage = Pct(10)
          /\ r.core.recoveryPercentage = Pct(10)

\* C9 as stated: outside override mode, with the four leg subgroups and Core all at 10%,
\* the lower-body plan is empty and its note is "All lower muscle groups recovering"
C9_AllAtTenIsEmpty ==
    ~TEST_RECOVERY_MODE /\ ReturnedPlan({"generateLowerBodyWorkout"}) /\ LowerGroupsAtTen =>
        /\ ret.value.exercises = <<>>
        /\ ret.value.note = "All lower muscle groups recovering"

\* C9: outside override mode, with the four leg subgroups and Core all at 10%, the
\* lower-body plan is not empty: it holds exactly two exercises, both Core, and its note is
\* not "All lower muscle groups recovering"
C9_AllAtTenIsCoreOnly ==
    ~TEST_RECOVERY_MODE /\ ret.op = "generateLowerBodyWorkout" /\ CallerHasProfile
      /\ LowerGroupsAtTen =>
        /\ ret.tag = "ok"
        /\ Len(ret.value.exercises) = 2
        /\ GroupsOf(ret.value.exercises) = {"Core"}
        /\ ret.locals.finalLegCount = 0
        /\ ret.value.note # "All lower muscle groups recovering"

C9_Witness ==
    /\ ~TEST_RECOVERY_MODE
    /\ ReturnedPlan({"generateLowerBodyWorkout"})
    /\ LowerGroupsAtTen

\* the four leg subgroups of the last caller are at 0%
LegSubgroupsAtZero ==
    /\ hasPermission(ret.caller, "user")
    /\ recoveryState[ret.caller] # null
    /\ LET r == currentRecoveryOf(ret.caller)
       IN \A f \in {"quadsRecovery", "hamstringsRecovery", "glutesRecovery",
                    "calvesRecovery"} : r[f].recoveryPercentage = 0

\* C10: outside override mode, with the four leg subgroups at 0%, the lower-body plan holds
\* only Core exercises, at most 2, and its note is
\* "Core-focused session (leg subgroups recovering)"
C10_LegsAtZeroIsCoreFocused ==
    ~TEST_RECOVERY_MODE /\ ReturnedPlan({"generateLowerBodyWorkout"}) /\ LegSubgroupsAtZero =>
        /\ GroupsOf(ret.value.exercises) \subseteq {"Core"}
        /\ Len(ret.value.exercises) <= 2
        /\ ret.value.note = "Core-focused session (leg subgroups recovering)"

\* the lists of length 0..MaxLen over two values: empty, single-element, with repeats
SmallLists == UNION {[1..n -> {"a", "b"}] : n \in 0..MaxLen}

Occurrences(list, x) == Cardinality({i \in 1..Len(list) : list[i] = x})

IsPermutation(out, in) ==
    /\ Len(out) = Len(in)
    /\ \A i \in 1..Len(in) : Occurrences(out, in[i]) = Occurrences(in, in[i])

\* C11: shuffleArray returns a permutation of its input (same length, same elements with
\* the same multiplicities) for every list, caller and counter value, and every index it
\* reads or writes is within the list
C11_ShuffleIsPermutation ==
    /\ \A caller \in Principals, arr \in SmallLists :
          LET swaps == shuffleSwaps(principalHash(caller) + shuffleCounter, Len(arr))
          IN /\ IsPermutation(shuffleArray(arr, caller, shuffleCounter), arr)
             /\ \A k \in 1..Len(swaps) :
                   /\ swaps[k][1] \in 0..(Len(arr) - 1)
                   /\ swaps[k][2] \in 0..(Len(arr) - 1)
    /\ ReturnedPlan({"getAlternativeExercises"}) =>
          /\ IsPermutation(ret.value, ret.locals.alternatives)
          /\ LET swaps == shuffleSwaps(principalHash(ret.caller) + ret.locals.counter,
                                       Len(ret.locals.alternatives))
             IN \A k \in 1..Len(swaps) :
                   /\ swaps[k][1] \in 0..(Len(ret.locals.alternatives) - 1)
                   /\ swaps[k][2] \in 0..(Len(ret.locals.alternatives) - 1)

\* the four Hamstrings alternatives came back in another order
C11_Witness ==
    /\ ReturnedPlan({"getAlternativeExercises"})
    /\ Len(ret.locals.alternatives) = 4
    /\ ret.value # ret.locals.alternatives

RECURSIVE SwapDown(_, _, _)
\* for i down to 2: swap position i-1 with position (seed + i - 1) mod i, positions from 0
SwapDown(list, seed, i) ==
    IF i < 2 THEN list
    ELSE LET a == (i - 1) + 1
             b == ((seed + i - 1) % i) + 1
         IN SwapDown([list EXCEPT ![a] = list[b], ![b] = list[a]], seed, i - 1)

\* C12: the output of shuffleArray is the result of taking seed = hash(caller) + counter
\* and, for i from N down to 2, swapping position i-1 with position (seed + i - 1) mod i
\* on a copy of the input; so equal caller, counter and input give equal output
C12_ShuffleIsSeededSwapDown ==
    /\ \A caller \in Principals, arr \in SmallLists :
          shuffleArray(arr, caller, shuffleCounter)
            = SwapDown(arr, principalHash(caller) + shuffleCounter, Len(arr))
    /\ ReturnedPlan({"getAlternativeExercises"}) =>
          ret.value = SwapDown(ret.locals.alternatives,
                               principalHash(ret.caller) + ret.locals.counter,
                               Len(ret.locals.alternatives))

\* the seven Core alternatives, shuffled after the counter had moved
C12_Witness ==
    /\ ReturnedPlan({"getAlternativeExercises"})
    /\ Len(ret.locals.alternatives) = 7
    /\ ret.locals.counter > 0
    /\ ret.value # ret.locals.alternatives

RECURSIVE Gcd(_, _)
Gcd(a, b) == IF b = 0 THEN a ELSE Gcd(b, a % b)

RECURSIVE LcmUpTo(_)
\* the least common multiple of 1..n
LcmUpTo(n) == IF n <= 1 THEN 1 ELSE (LcmUpTo(n - 1) * n) \div Gcd(LcmUpTo(n - 1), n)

Distance(a, b) == IF a >= b THEN a - b ELSE b - a

\* the last call shuffled a list of at least two (distinct) alternatives
ShuffledAlternatives ==
    /\ ReturnedPlan({"getAlternativeExercises"})
    /\ Len(ret.locals.alternatives) >= 2

\* C13 as stated: an invocation by the same caller on the same list that reads another
\* counter value returns another ordering
C13_RepeatedCallsDiffer ==
    ShuffledAlternatives =>
        \A c \in 0..ShuffleHorizon :
            c # ret.locals.counter =>
                shuffleArray(ret.locals.alternatives, ret.caller, c) # ret.value

\* C13: two invocations by the same caller on the same list of N >= 2 distinct elements
\* return the same ordering exactly when the counter values they read differ by a
\* multiple of lcm(2..N), and different orderings otherwise
C13_OrderingsRepeatWithPeriod ==
    ShuffledAlternatives =>
        \A c \in 0..ShuffleHorizon :
            shuffleArray(ret.locals.alternatives, ret.caller, c) = ret.value
              <=> Distance(c, ret.locals.counter) % LcmUpTo(Len(ret.locals.alternatives)) = 0

\* four alternatives whose ordering comes back at another counter value
C13_Witness ==
    /\ ShuffledAlternatives
    /\ Len(ret.locals.alternatives) = 4
    /\ \E c \in 0..ShuffleHorizon :
          /\ c # ret.locals.counter
          /\ shuffleArray(ret.locals.alternatives, ret.caller, c) = ret.value

\* the groups of an order for which the caller's quota is positive: one shuffle each
ShuffledGroups(caller, muscleGroupOrder) ==
    {k \in 1..Len(muscleGroupOrder) :
        getExerciseCountForGroup(muscleGroupOrder[k], currentRecoveryOf(caller)) > 0}

\* C14: the shuffle counter never decreases and every shuffle invocation, from the three
\* generators and from getAlternativeExercises, adds exactly 1 to it: a call that shuffles
\* k times leaves it k higher
C14_EveryShuffleCounts ==
    [][/\ shuffleCounter' >= shuffleCounter
       /\ \A caller \in Principals :
             hasPermission(caller, "user") =>
                 /\ \A muscleGroup \in AlternativeGroups :
                       getAlternativeExercises(caller, muscleGroup) =>
                           shuffleCounter' = shuffleCounter + 1
                 /\ userProfiles[caller] # null =>
                       /\ generateLowerBodyWorkout(caller) =>
                             shuffleCounter' = shuffleCounter + 5
                       /\ generateFullBodyWorkout(caller) =>
                             shuffleCounter' = shuffleCounter
                                 + Cardinality(ShuffledGroups(caller, fullBodyOrder))
                       /\ generateUpperBodyWorkout(caller) =>
                             shuffleCounter' = shuffleCounter
                                 + Cardinality(ShuffledGroups(caller, upperBodyOrder))]_vars

LegSubgroups == {"Quads", "Hamstrings", "Glutes", "Calves"}

\* the RecoveryState field of a muscle group
FieldOf(group) ==
    CASE group = "Quads" -> "quadsRecovery"
      [] group = "Hamstrings" -> "hamstringsRecovery"
      [] group = "Glutes" -> "glutesRecovery"
      [] group = "Calves" -> "calvesRecovery"
      [] group = "Chest" -> "chest"
      [] group = "Back" -> "back"
      [] group = "Shoulders" -> "shoulders"
      [] group = "Arms" -> "arms"
      [] group = "Core" -> "core"

\* how many exercises of a group a list of planned exercises holds
SelectedOf(exercises, group) ==
    Cardinality({i \in 1..Len(exercises) : exercises[i].exercise.primaryMuscleGroup = group})

\* the leg quota read from the subgroup's own percentage, with `low` as the lower threshold
LegQuota(r, low) == IF r >= Pct(80) THEN 2 ELSE IF r >= low THEN 1 ELSE 0

\* a lower-body plan was returned outside override mode, and the clock still shows the
\* instant of the call
LowerPlanByRecovery ==
    /\ ~TEST_RECOVERY_MODE
    /\ ReturnedPlan({"generateLowerBodyWorkout"})
    /\ ret.value.timestamp = now

\* C15 as stated: outside override mode a leg subgroup's quota depends only on its own
\* percentage r: 2 when r >= 80, 1 when 30 <= r < 80, 0 when r < 30
C15_LegQuotaFromThirty ==
    LowerPlanByRecovery =>
        \A g \in LegSubgroups :
            LET r == currentRecoveryOf(ret.caller)[FieldOf(g)].recoveryPercentage
            IN /\ getExerciseCountForGroup(g, currentRecoveryOf(ret.caller)) = LegQuota(r, Pct(30))
               /\ SelectedOf(ret.locals.finalExercises, g) = LegQuota(r, Pct(30))

\* C15: outside override mode a leg subgroup's quota depends only on its own percentage
\* r: 2 when r >= 80, 1 when 50 <= r < 80, 0 when r < 50
C15_LegQuotaFromFifty ==
    LowerPlanByRecovery =>
        \A g \in LegSubgroups :
            LET r == currentRecoveryOf(ret.caller)[FieldOf(g)].recoveryPercentage
            IN /\ getExerciseCountForGroup(g, currentRecoveryOf(ret.caller)) = LegQuota(r, Pct(50))
               /\ SelectedOf(ret.locals.finalExercises, g) = LegQuota(r, Pct(50))

\* a plan made with one subgroup at 80% or more and another between 30% and 50%
C15_Witness ==
    /\ LowerPlanByRecovery
    /\ recoveryState[ret.caller] # null
    /\ \E g, h \in LegSubgroups :
          LET r == currentRecoveryOf(ret.caller)
          IN /\ r[FieldOf(g)].recoveryPercentage >= Pct(80)
             /\ r[FieldOf(h)].recoveryPercentage >= Pct(30)
             /\ r[FieldOf(h)].recoveryPercentage < Pct(50)
             /\ SelectedOf(ret.locals.finalExercises, g) = 2
             /\ SelectedOf(ret.locals.finalExercises, h) = 0

UpperGroups == {"Chest", "Back", "Shoulders", "Arms"}

\* the percentage of a group last trained at lastTrained, over a 72-hour window (30 ticks)
PercentageOver72Hours(lastTrained) == Min(Pct(100), ((now - lastTrained) * Pct(100)) \div 30)

\* an upper-body plan was returned outside override mode, and the clock still shows the
\* instant of the call
UpperPlanByRecovery ==
    /\ ~TEST_RECOVERY_MODE
    /\ ReturnedPlan({"generateUpperBodyWorkout"})
    /\ ret.value.timestamp = now

\* C16: outside override mode the quota of each of Chest, Back, Shoulders and Arms is 2
\* when the group's own percentage, from its own lastTrained over 72 hours, is at least 65
\* and 0 otherwise, whatever the other groups' recovery; with no stored recovery state it
\* is 2
C16_UpperQuotaFromOwnRecovery ==
    UpperPlanByRecovery =>
        \A g \in UpperGroups :
            LET quota == getExerciseCountForGroup(g, currentRecoveryOf(ret.caller))
                stored == recoveryState[ret.caller]
            IN /\ quota \in {0, 2}
               /\ SelectedOf(ret.value.exercises, g) = quota
               /\ stored = null => quota = 2
               /\ stored # null =>
                     (quota = 2 <=> PercentageOver72Hours(stored[FieldOf(g)].lastTrained) >= Pct(65))

\* a plan made while Back was below 65% and Chest at 65% or more
C16_Witness ==
    /\ UpperPlanByRecovery
    /\ recoveryState[ret.caller] # null
    /\ SelectedOf(ret.value.exercises, "Back") = 0
    /\ SelectedOf(ret.value.exercises, "Chest") = 2

NineGroups == LegSubgroups \cup UpperGroups \cup {"Core"}

\* the groups a generator asks a quota for
GroupsAsked(op) ==
    CASE op = "generateLowerBodyWorkout" -> LegSubgroups \cup {"Core"}
      [] op = "generateUpperBodyWorkout" -> UpperGroups \cup {"Core"}
      [] op = "generateFullBodyWorkout" -> NineGroups

\* a generator returned a plan and the clock still shows the instant of the call
PlanJustMade == ReturnedPlan(GenerationOps) /\ ret.value.timestamp = now

\* C17: the quota is 2 whenever the group is Core, whatever Core's recovery, or the
\* override is active, for each of the nine groups whatever their recovery
C17_CoreAndOverrideQuotaTwo ==
    PlanJustMade =>
        \A g \in NineGroups :
            g = "Core" \/ TEST_RECOVERY_MODE =>
                /\ getExerciseCountForGroup(g, currentRecoveryOf(ret.caller)) = 2
                /\ g \in GroupsAsked(ret.op) => SelectedOf(ret.locals.finalExercises, g) = 2

\* a plan made outside override mode at the instant Core was trained (0%)
C17_Witness ==
    /\ PlanJustMade
    /\ ~TEST_RECOVERY_MODE
    /\ recoveryState[ret.caller] # null
    /\ recoveryState[ret.caller].core.lastTrained = now
    /\ currentRecoveryOf(ret.caller).core.recoveryPercentage = 0
    /\ SelectedOf(ret.locals.finalExercises, "Core") = 2

\* C18: under the override the refreshed RecoveryState that getRecoveryState reports and
\* the generators use has, for each of the nine groups, recoveryPercentage 100 and the
\* lastTrained stored for that same group
C18_OverrideKeepsLastTrained ==
    /\ TEST_RECOVERY_MODE /\ ReturnedPlan({"getRecoveryState"})
         /\ recoveryState[ret.caller] # null =>
          \A f \in RecoveryFields :
              /\ ret.value[f].recoveryPercentage = Pct(100)
              /\ ret.value[f].lastTrained = recoveryState[ret.caller][f].lastTrained
    /\ TEST_RECOVERY_MODE =>
          \A p \in Principals :
              recoveryState[p] # null =>
                  \A f \in RecoveryFields :
                      /\ currentRecoveryOf(p)[f].recoveryPercentage = Pct(100)
                      /\ currentRecoveryOf(p)[f].lastTrained = recoveryState[p][f].lastTrained

\* the step is a call of one of the three generators
GenerationStep ==
    /\ ret'.op \in GenerationOps
    /\ \/ shuffleCounter' # shuffleCounter
       \/ ret'.op # ret.op
       \/ ret'.caller # ret.caller
       \/ ret'.tag # ret.tag
       \/ ret'.err # ret.err
       \/ ret'.tag = "ok" /\ ret'.value # ret.value

ReportedSubgroups ==
    IF ret.op = "getRecoveryState"
    THEN <<ret.value.quadsRecovery.recoveryPercentage,
           ret.value.hamstringsRecovery.recoveryPercentage,
           ret.value.glutesRecovery.recoveryPercentage,
           ret.value.calvesRecovery.recoveryPercentage>>
    ELSE <<ret.value.quads.recoveryPercentage, ret.value.hamstrings.recoveryPercentage,
           ret.value.glutes.recoveryPercentage, ret.value.calves.recoveryPercentage>>

RecoveryReported == ReturnedPlan({"getRecoveryState", "getLegSubgroupRecovery"})

AnyProfiles ==
    [gender : {"male", "female", "other"}, bodyweight : {0 - 80, 0, 60, 80}]

\* C22: in every generated plan an exercise with equipmentType "Bodyweight" has
\* suggestedWeight = 0 and no suggestedWeight is negative; for every catalog exercise and
\* every profile calculateSuggestedWeight is 0 for "Bodyweight" and never negative
C22_BodyweightIsZero ==
    /\ ReturnedPlan(GenerationOps) =>
          LET exercises == ret.value.exercises
          IN \A i \in 1..Len(exercises) :
                /\ exercises[i].suggestedWeight >= 0
                /\ exercises[i].suggestedWeight =
                      calculateSuggestedWeight(exercises[i].exercise, userProfiles[ret.caller])
                /\ exercises[i].exercise.equipmentType = "Bodyweight" =>
                      exercises[i].suggestedWeight = 0
    /\ \A i \in 1..Len(exerciseLibrary), profile \in AnyProfiles :
          /\ calculateSuggestedWeight(exerciseLibrary[i], profile) >= 0
          /\ exerciseLibrary[i].equipmentType = "Bodyweight" =>
                calculateSuggestedWeight(exerciseLibrary[i], profile) = 0

\* a plan that holds a "Bodyweight" exercise next to one with a positive suggested weight
C22_Witness ==
    /\ ReturnedPlan(GenerationOps)
    /\ \E i, j \in 1..Len(ret.value.exercises) :
          /\ ret.value.exercises[i].exercise.equipmentType = "Bodyweight"
          /\ ret.value.exercises[i].suggestedWeight = 0
          /\ ret.value.exercises[j].suggestedWeight > 0

\* an authorized caller's in-session weight update returned
WeightUpdated == ReturnedPlan({"updateSuggestedWeightDuringSession"})

\* C23: updateSuggestedWeightDuringSession(name, weight, reps) by an authorized caller
\* returns weight*1.075 when reps > 12, weight*0.925 when reps < 6 and weight when
\* 6 <= reps <= 12, and the caller's stored configuration for name then holds the returned
\* weight (with reps 10 and sets 3); an unauthorized caller gets an error
C23_WeightFollowsReps ==
    /\ WeightUpdated =>
          LET weight == ret.locals.weight
              reps == ret.locals.reps
              configs == setConfigurations[ret.caller]
          IN /\ hasPermission(ret.caller, "user")
             /\ reps > 12 => 40 * ret.value = 43 * weight
             /\ reps < 6 => 40 * ret.value = 37 * weight
             /\ reps >= 6 /\ reps <= 12 => ret.value = weight
             /\ ret.locals.exerciseName \in DOMAIN configs
             /\ configs[ret.locals.exerciseName] =
                   [weight |-> ret.value, reps |-> 10, sets |-> 3]
    /\ ret.op = "updateSuggestedWeightDuringSession" /\ ~hasPermission(ret.caller, "user") =>
          ret.tag = "err" /\ ret.err = "unauthorized"

\* a set of exactly 12 repetitions left the weight as it was, while the caller's other
\* exercise holds a weight that an earlier call raised
C23_Witness ==
    /\ WeightUpdated
    /\ ret.locals.reps = 12
    /\ ret.value = ret.locals.weight
    /\ \E n \in DOMAIN setConfigurations[ret.caller] :
          /\ n # ret.locals.exerciseName
          /\ 40 * setConfigurations[ret.caller][n].weight = 43 * ret.locals.weight

\* the step is a saveWorkout of an authorized caller
SaveWorkoutStep ==
    /\ ret'.op = "saveWorkout"
    /\ ret'.tag = "ok"
    /\ workoutHistory' # workoutHistory

\* the muscle groups of the workout the step saved
SavedGroups ==
    LET history == workoutHistory'[ret'.caller]
    IN GroupsOf(history[Len(history)].exercises)

\* the state stored for the caller before the step, or the default when none is stored
StoredOrDefault(caller) ==
    IF recoveryState[caller] = null THEN getDefaultRecoveryState ELSE recoveryState[caller]

\* C24: saveWorkout sets lastTrained = now and recoveryPercentage = 0 for exactly the groups
\* that are the primaryMuscleGroup of an exercise of the saved workout and leaves the stored
\* lastTrained of every other group of the caller unchanged, with override mode on or off
C24_SaveTouchesTrainedGroupsOnly ==
    [][SaveWorkoutStep =>
          \A g \in NineGroups :
              LET before == StoredOrDefault(ret'.caller)[FieldOf(g)]
                  after == recoveryState'[ret'.caller][FieldOf(g)]
              IN IF g \in SavedGroups
                 THEN after = [lastTrained |-> now, recoveryPercentage |-> Pct(0)]
                 ELSE after.lastTrained = before.lastTrained]_vars

\* C24 outside override mode: there the frame holds
C24_SaveFrameWithoutOverride ==
    [][SaveWorkoutStep /\ ~TEST_RECOVERY_MODE =>
          \A g \in NineGroups \ SavedGroups :
              recoveryState'[ret'.caller][FieldOf(g)].lastTrained =
                  StoredOrDefault(ret'.caller)[FieldOf(g)].lastTrained]_vars

\* the recovery window of a group in ticks: 72 hours, 48 hours for Core
WindowOf(group) == IF group = "Core" THEN 20 ELSE 30

\* the percentage of group g that principal p reads now
ReadNow(p, g) == currentRecoveryOf(p)[FieldOf(g)].recoveryPercentage

\* C25: in non-override mode, after saveWorkout records at time t a workout with an exercise
\* of group g, the recovery of g read at t is 0% and, with no further training of g, the
\* recovery read at a later time t' is min(100, 100*(t'-t)/window), window 72 hours (48 for
\* Core): it never decreases as time advances and is 100 once t'-t >= window
C25_RecoveryGrowsLinearly ==
    [][~TEST_RECOVERY_MODE =>
          /\ SaveWorkoutStep =>
                \A p \in Principals, g \in SavedGroups :
                    p = ret'.caller =>
                        /\ recoveryState'[p][FieldOf(g)].lastTrained = now
                        /\ ReadNow(p, g)' = 0
          /\ \A p \in Principals, g \in NineGroups :
                recoveryState'[p] # null =>
                    LET elapsed == now' - recoveryState'[p][FieldOf(g)].lastTrained
                    IN /\ ReadNow(p, g)' * WindowOf(g) =
                             Min(Pct(100) * WindowOf(g), Pct(100) * elapsed)
                       /\ elapsed >= WindowOf(g) => ReadNow(p, g)' = Pct(100)
          /\ now' > now =>
                \A p \in Principals, g \in NineGroups : ReadNow(p, g)' >= ReadNow(p, g)]_vars

\* Core and Chest were trained at time 0 and 48 hours have passed: Core reads 100%, Chest
\* two thirds
C25_Witness ==
    /\ ~TEST_RECOVERY_MODE
    /\ recoveryState[alice] # null
    /\ recoveryState[alice].core.lastTrained = 0
    /\ recoveryState[alice].chest.lastTrained = 0
    /\ now = 20
    /\ ReadNow(alice, "Core") = Pct(100)
    /\ 3 * ReadNow(alice, "Chest") = 2 * Pct(100)
    /\ ReturnedPlan({"getRecoveryState"})
    /\ ret.value.core.recoveryPercentage = Pct(100)
    /\ ret.value.chest.recoveryPercentage < Pct(100)

\* C26: every lastTrained stored for a user and group, and the lastTrained of the default
\* state used when none is stored, is at most the current time, so the elapsed time
\* now - lastTrained is never negative
C26_LastTrainedNotAfterNow ==
    /\ \A p \in AllPrincipals, f \in RecoveryFields :
          /\ recoveryState[p] # null => recoveryState[p][f].lastTrained <= now
          /\ currentRecoveryOf(p)[f].lastTrained <= now
          /\ currentRecoveryOf(p)[f].recoveryPercentage >= 0
    /\ \A f \in RecoveryFields : getDefaultRecoveryState[f].lastTrained <= now

\* two workouts were saved at different instants and the clock has moved on since
C26_Witness ==
    /\ recoveryState[alice] # null
    /\ recoveryState[alice].quadsRecovery.lastTrained = 0
    /\ recoveryState[alice].back.lastTrained = 15
    /\ now = MaxTime
    /\ Len(workoutHistory[alice]) = 2

\* the fixed group order of a generator
OrderOf(op) ==
    CASE op = "generateLowerBodyWorkout" -> <<"Quads", "Hamstrings", "Glutes", "Calves", "Core">>
      [] op = "generateUpperBodyWorkout" -> <<"Chest", "Back", "Shoulders", "Arms", "Core">>
      [] op = "generateFullBodyWorkout" ->
            <<"Chest", "Back", "Shoulders", "Arms", "Quads", "Hamstrings", "Glutes", "Calves",
              "Core">>

\* the place of a group in an order
PlaceIn(order, group) == CHOOSE k \in 1..Len(order) : order[k] = group

\* the exercises are grouped, and the groups follow the order
FollowsOrder(exercises, order) ==
    /\ \A i \in 1..Len(exercises) :
          \E k \in 1..Len(order) : order[k] = exercises[i].exercise.primaryMuscleGroup
    /\ \A i, j \in 1..Len(exercises) :
          i < j => PlaceIn(order, exercises[i].exercise.primaryMuscleGroup)
                   <= PlaceIn(order, exercises[j].exercise.primaryMuscleGroup)

\* the number of catalog entries of a group
CatalogCount(group) ==
    Cardinality({i \in 1..Len(exerciseLibrary) : exerciseLibrary[i].primaryMuscleGroup = group})

GenerationRun ==
    /\ GenerationStep
    /\ hasPermission(ret'.caller, "user")
    /\ userProfiles[ret'.caller] # null

\* C28: each generation run passes every group of the plan's group list through the shuffle
\* exactly once, whether or not the group's quota is 0: a lower-body or upper-body run
\* advances the shuffle counter by exactly 5 and a full-body run by exactly 9
C28_EveryGroupShuffledOnce ==
    [][GenerationRun =>
          shuffleCounter' = shuffleCounter + Len(OrderOf(ret'.op))]_vars

\* C28 as the code has it: the lower-body run advances the counter by 5; an upper- or
\* full-body run advances it by the number of its groups whose quota is not 0
C28_GroupsWithQuotaShuffledOnce ==
    [][GenerationRun =>
          \E c \in Principals :
              /\ c = ret'.caller
              /\ shuffleCounter' = shuffleCounter +
                    (IF ret'.op = "generateLowerBodyWorkout" THEN 5
                     ELSE Cardinality({g \in GroupsAsked(ret'.op) :
                              getExerciseCountForGroup(g, currentRecoveryOf(c)) > 0}))]_vars

\* what the actor stores for principal p
StoredFor(p) ==
    <<userProfiles[p], recoveryState[p], workoutHistory[p], setConfigurations[p]>>

\* what a generator replies to caller c, computed from c's own stored state and the
\* shuffle counter
ReplyFor(op, c) ==
    IF op = "generateLowerBodyWorkout"
    THEN lowerBodyReply(lowerBodySections(c, userProfiles[c], currentRecoveryOf(c),
                                          shuffleCounter))
    ELSE orderedReply(buildGroups(c, userProfiles[c], currentRecoveryOf(c), OrderOf(op), <<>>,
                                  shuffleCounter).allExercises)

LegsIn(exercises) ==
    Cardinality({i \in 1..Len(exercises) :
                    exercises[i].exercise.primaryMuscleGroup \in LegSubgroups})

\* C30: a lower-body plan contains a Core exercise if and only if the leg subgroups together
\* contributed fewer than 8 exercises; when all four leg subgroups have quota 2, as
\* whenever override mode is active, the plan is exactly 8 leg exercises and no Core exercise
C30_CoreIffLegsBelowEight ==
    /\ ReturnedPlan({"generateLowerBodyWorkout"}) =>
          /\ ret.locals.finalLegCount = LegsIn(ret.locals.finalExercises)
          /\ SelectedOf(ret.value.exercises, "Core") > 0 <=> ret.locals.finalLegCount < 8
          /\ ret.locals.finalLegCount = 8 =>
                /\ Len(ret.value.exercises) = 8
                /\ LegsIn(ret.value.exercises) = 8
                /\ SelectedOf(ret.locals.finalExercises, "Core") = 2
          /\ TEST_RECOVERY_MODE => ret.locals.finalLegCount = 8
    /\ ReturnedPlan({"generateLowerBodyWorkout"}) /\ ret.value.timestamp = now =>
          ((\A g \in LegSubgroups :
                getExerciseCountForGroup(g, currentRecoveryOf(ret.caller)) = 2)
             <=> ret.locals.finalLegCount = 8)

\* outside override mode all four leg subgroups had quota 2 and the cap dropped the two
\* Core selections
C30_Witness ==
    /\ ~TEST_RECOVERY_MODE
    /\ ReturnedPlan({"generateLowerBodyWorkout"})
    /\ recoveryState[ret.caller] # null
    /\ ret.locals.finalLegCount = 8
    /\ Len(ret.locals.finalExercises) = 10
    /\ SelectedOf(ret.value.exercises, "Core") = 0

\* a lower-body plan with fewer than 8 leg exercises and both Core selections
C30_WitnessWithCore ==
    /\ ReturnedPlan({"generateLowerBodyWorkout"})
    /\ ret.locals.finalLegCount = 4
    /\ SelectedOf(ret.value.exercises, "Core") = 2

====
